---- MODULE Spec2Model ----
(***************************************************************************)
(* Model of lnad: the centrality wrappers and connectivity / efficiency    *)
(* helpers of lnad/analysis.py and the NetworkDismantling attack loops of  *)
(* lnad/dismantling.py.                                                     *)
(*                                                                         *)
(* Conventions.                                                            *)
(*  - A graph value is a record [names, edges, directed].  names is the    *)
(*    sequence of the vertices' "name" attribute; the vertex at position p *)
(*    of the model is the igraph vertex with index p-1.  edges is the      *)
(*    sequence of edges <<source, target, weight>> in edge-id order.       *)
(*  - Scores and efficiencies are exact fractions <<p, q>>, q > 0, in      *)
(*    lowest terms (the code computes them in floating point).             *)
(*  - A Python exception is the value of err and ends the call.            *)
(***************************************************************************)
EXTENDS Integers, Sequences, FiniteSets, TLC

\* Bounds of the model.
MaxV == 3
MaxE == 3
MaxArcs == 2
MaxN == 4
MaxW == 2
MaxScore == 1
MaxWords == 2
MaxSeeds == 2
MaxTrialN == 2
MaxTrialV == 2

----------------------------------------------------------------------------
\* Exact arithmetic.

\* F applied to the value of v (v is evaluated once).
With(v, F(_)) == CHOOSE r \in {F(x) : x \in {v}} : TRUE

RECURSIVE IntSum(_, _)
IntSum(s, n) == IF n = 0 THEN 0 ELSE s[n] + IntSum(s, n - 1)

RECURSIVE Gcd(_, _)
Gcd(a, b) == IF b = 0 THEN a ELSE Gcd(b, a % b)

Frac(p, q) == IF p = 0 THEN <<0, 1>> ELSE <<p \div Gcd(p, q), q \div Gcd(p, q)>>

FracAdd(x, y) == Frac(x[1] * y[2] + y[1] * x[2], x[2] * y[2])

FracMul(x, y) == Frac(x[1] * y[1], x[2] * y[2])

FracLess(x, y) == x[1] * y[2] < y[1] * x[2]

Zero == Frac(0, 1)

\* s[1] + ... + s[n] for a sequence of fractions.
RECURSIVE FracSum(_, _)
FracSum(s, n) == IF n = 0 THEN Zero ELSE FracAdd(s[n], FracSum(s, n - 1))

SetMin(S) == CHOOSE x \in S : \A y \in S : x <= y

SetMax(S) == CHOOSE x \in S : \A y \in S : y <= x

\* The elements of a set of integers in ascending order.
RECURSIVE Ascending(_)
Ascending(S) ==
    IF S = {} THEN <<>>
    ELSE With(SetMin(S), LAMBDA m : <<m>> \o Ascending(S \ {m}))

\* The sequence s without its k-th element.
RemoveAt(s, k) == SubSeq(s, 1, k - 1) \o SubSeq(s, k + 1, Len(s))

----------------------------------------------------------------------------
\* The igraph Graph object, as far as the code uses it.

vcount(G) == Len(G.names)

ecount(G) == Len(G.edges)

Vertices(G) == 1..vcount(G)

\* The index of a vertex once vertex v is deleted.
Down(x, v) == IF x > v THEN x - 1 ELSE x

\* Graph.delete_vertices(v): the vertex and its incident edges go, the
\* vertices behind it move down by one index, the edge order is kept.
delete_vertices(G, v) ==
    With(SelectSeq(G.edges, LAMBDA e : e[1] # v /\ e[2] # v),
         LAMBDA kept :
            [G EXCEPT !.names = RemoveAt(G.names, v),
                      !.edges = [k \in 1..Len(kept) |->
                                    <<Down(kept[k][1], v), Down(kept[k][2], v),
                                      kept[k][3]>>]])

\* Every edge goes.
delete_all_edges(G, e) == [G EXCEPT !.edges = <<>>]

\* Graph.delete_edges(e): only the edge goes.
delete_edges(G, e) == [G EXCEPT !.edges = RemoveAt(G.edges, e)]

\* The weight of edge e under a weight selector (None: every edge counts 1).
EdgeWeight(e, weight) == IF weight = "None" THEN 1 ELSE e[3]

Unreachable == 0 - 1

\* The shorter of two path lengths, and the length of two paths in a row.
Shorter(x, y) ==
    IF x = Unreachable THEN y
    ELSE IF y = Unreachable THEN x
    ELSE IF x <= y THEN x ELSE y

Joined(x, y) == IF x = Unreachable \/ y = Unreachable THEN Unreachable ELSE x + y

\* The lengths of the edges that lead from s to t.  An undirected edge, or
\* any edge under mode="all", leads both ways.
Direct(G, weight, directed, s, t) ==
    {EdgeWeight(G.edges[k], weight) :
        k \in {j \in 1..ecount(G) :
                 \/ G.edges[j][1] = s /\ G.edges[j][2] = t
                 \/ ~directed /\ G.edges[j][1] = t /\ G.edges[j][2] = s}}

RECURSIVE ViaVertices(_, _, _)
ViaVertices(D, k, n) ==
    IF k > n THEN D
    ELSE With([s \in 1..n |-> [t \in 1..n |->
                    Shorter(D[s][t], Joined(D[s][k], D[k][t]))]],
              LAMBDA via : ViaVertices(via, k + 1, n))

\* Graph.distances(): D[s][t] is the length of a shortest path from s to t;
\* Unreachable stands for igraph's inf.
distances(G, weight, directed) ==
    With([s \in Vertices(G) |-> [t \in Vertices(G) |->
                IF s = t THEN 0
                ELSE With(Direct(G, weight, directed, s, t),
                          LAMBDA L : IF L = {} THEN Unreachable ELSE SetMin(L))]],
         LAMBDA direct : ViaVertices(direct, 1, vcount(G)))

----------------------------------------------------------------------------
\* Connectivity: Graph.connected_components() with its default mode
\* ("strong"; on an undirected graph the ordinary components).

\* The component of v, D being the distances.
Component(D, n, v) ==
    {u \in 1..n : D[v][u] # Unreachable /\ D[u][v] # Unreachable}

\* The sizes of the components, one entry per component.
SizesOf(comp, n) ==
    With(Ascending({v \in 1..n : \A u \in comp[v] : v <= u}),
         LAMBDA roots : [k \in 1..Len(roots) |-> Cardinality(comp[roots[k]])])

\* VertexClustering.sizes().
ComponentSizes(G) ==
    With(distances(G, "None", G.directed),
         LAMBDA D : SizesOf([v \in Vertices(G) |-> Component(D, vcount(G), v)],
                            vcount(G)))

SeqMax(s) == SetMax({s[k] : k \in 1..Len(s)})

\* giant() is the first largest component, the graph itself when there is
\* no component at all.
LargestOf(sizes, n) == IF sizes = <<>> THEN n ELSE SeqMax(sizes)

largest_connected_component(G) ==
    With(ComponentSizes(G), LAMBDA sizes : LargestOf(sizes, vcount(G)))

\* sorted(sizes, reverse=True)[1], 0 when there is no second entry.
SecondOf(sizes) ==
    IF Len(sizes) > 1
    THEN SeqMax(RemoveAt(sizes, CHOOSE k \in 1..Len(sizes) : sizes[k] = SeqMax(sizes)))
    ELSE 0

second_largest_connected_component(G) ==
    With(ComponentSizes(G), LAMBDA sizes : SecondOf(sizes))

\* The sum of d itself over the finite entries of row v of D.
DistanceRow(D, n, v) ==
    With([t \in 1..n |-> IF D[v][t] = 0 \/ D[v][t] = Unreachable THEN Zero
                         ELSE Frac(D[v][t], 1)],
         LAMBDA dij : FracSum(dij, n))

\* The sum of 1/d over the finite, non-zero entries of row v of D.
InverseRow(D, n, v) ==
    With([t \in 1..n |-> IF D[v][t] = 0 \/ D[v][t] = Unreachable THEN Zero
                         ELSE Frac(1, D[v][t])],
         LAMBDA inv_dij : FracSum(inv_dij, n))

\* The sum of the inverse distances over all n * n pairs.
EfficiencyOverAll(D, n) ==
    With([v \in 1..n |-> InverseRow(D, n, v)],
         LAMBDA inv_d : FracMul(FracSum(inv_d, n), Frac(1, n * n)))

\* sum(inv_d) / (n * (n - 1)).
EfficiencyOf(D, n) ==
    With([v \in 1..n |-> InverseRow(D, n, v)],
         LAMBDA inv_d : FracMul(FracSum(inv_d, n), Frac(1, n * (n - 1))))

global_efficiency(G, weight) ==
    IF vcount(G) < 2 THEN Zero
    ELSE With(distances(G, weight, FALSE), LAMBDA D : EfficiencyOf(D, vcount(G)))

\* The number of components of the underlying undirected graph.
NumComponents(G) ==
    With(distances(G, "None", FALSE),
         LAMBDA D : Cardinality({Component(D, vcount(G), v) : v \in Vertices(G)}))

\* Graph.articulation_points(): the indices (integers, ascending) of the
\* vertices whose removal leaves more components.
articulation_points(G) ==
    With(NumComponents(G),
         LAMBDA c : Ascending({v \in Vertices(G) :
                                 NumComponents(delete_vertices(G, v)) > c}))

----------------------------------------------------------------------------
\* Centrality.  A ranking is a sequence of [elem, score]; elem is the index
\* the Vertex or Edge object holds.

\* Insertion of x in front of the items that score the same.
InsertUnstable(s, x) ==
    With(Cardinality({j \in 1..Len(s) : FracLess(x.score, s[j].score)}),
         LAMBDA k : SubSeq(s, 1, k) \o <<x>> \o SubSeq(s, k + 1, Len(s)))

\* Stable insertion of x behind every item that does not score less.
Insert(s, x) ==
    With(Cardinality({j \in 1..Len(s) : ~FracLess(s[j].score, x.score)}),
         LAMBDA k : SubSeq(s, 1, k) \o <<x>> \o SubSeq(s, k + 1, Len(s)))

RECURSIVE SortFirst(_, _)
SortFirst(items, n) ==
    IF n = 0 THEN <<>>
    ELSE With(SortFirst(items, n - 1), LAMBDA s : Insert(s, items[n]))

\* sorted(items, key=itemgetter(1), reverse=True): descending and stable.
sorted(items) == SortFirst(items, Len(items))

\* A ranking built from the scores in index order.
Ranked(scores) ==
    With([k \in 1..Len(scores) |-> [elem |-> k, score |-> scores[k]]],
         LAMBDA items : sorted(items))

Ok(items) == [err |-> "none", items |-> items]

Raise(e) == [err |-> e, items |-> <<>>]

\* The edges that leave a vertex.
degree_out(G, v) == Cardinality({k \in 1..ecount(G) : G.edges[k][1] = v})

\* Graph.degree(): the edges at a vertex, both directions, loops twice.
degree(G, v) ==
    Cardinality({k \in 1..ecount(G) : G.edges[k][1] = v})
    + Cardinality({k \in 1..ecount(G) : G.edges[k][2] = v})

degree_centrality(G, weight) ==
    IF vcount(G) > 0 /\ vcount(G) - 1 = 0 THEN Raise("ZeroDivisionError")
    ELSE Ok(Ranked([v \in Vertices(G) |-> Frac(degree(G, v), vcount(G) - 1)]))

\* Number of shortest paths from s to t over the edges of G, D being the
\* distances.
RECURSIVE PathCount(_, _, _, _, _, _)
PathCount(G, weight, directed, D, s, t) ==
    IF s = t THEN 1
    ELSE With([u \in Vertices(G) |->
                  IF u # t /\ D[s][u] # Unreachable
                  THEN Cardinality({k \in 1..ecount(G) :
                          /\ \/ G.edges[k][1] = u /\ G.edges[k][2] = t
                             \/ ~directed /\ G.edges[k][1] = t /\ G.edges[k][2] = u
                          /\ D[s][u] + EdgeWeight(G.edges[k], weight) = D[s][t]})
                  ELSE 0],
              LAMBDA last :
                  With([u \in Vertices(G) |->
                           IF last[u] = 0 THEN 0
                           ELSE last[u] * PathCount(G, weight, directed, D, s, u)],
                       LAMBDA c : IntSum(c, vcount(G))))

\* The number of shortest paths between every two vertices.
PathCounts(G, weight, directed, D) ==
    [s \in Vertices(G) |-> [t \in Vertices(G) |->
        IF D[s][t] = Unreachable THEN 0 ELSE PathCount(G, weight, directed, D, s, t)]]

\* The share of the shortest paths from s to t that pass through v.
Through(D, N, v, s, t, both) ==
    IF s # v /\ t # v /\ s # t /\ (both \/ s < t) /\ D[s][t] # Unreachable
       /\ Joined(D[s][v], D[v][t]) = D[s][t]
    THEN Frac(N[s][v] * N[v][t], N[s][t])
    ELSE Zero

\* The sum of share(s, t) over all pairs of vertices.
OverPairs(n, share(_, _)) ==
    With([s \in 1..n |-> With([t \in 1..n |-> share(s, t)],
                              LAMBDA row : FracSum(row, n))],
         LAMBDA rows : FracSum(rows, n))

\* Graph.betweenness(directed=G.is_directed(), weights=weight): ordered
\* pairs on a directed graph, unordered pairs otherwise.
BetweennessOf(G, D, N) ==
    [v \in Vertices(G) |->
        OverPairs(vcount(G), LAMBDA s, t : Through(D, N, v, s, t, G.directed))]

betweenness(G, weight) ==
    With(distances(G, weight, G.directed),
         LAMBDA D : With(PathCounts(G, weight, G.directed, D),
                         LAMBDA N : BetweennessOf(G, D, N)))

\* The number of shortest paths from s to t that run from a to b over an
\* edge of length w.
Along(D, N, a, b, w, s, t) ==
    IF Joined(D[s][a], D[b][t]) # Unreachable /\ D[s][a] + w + D[b][t] = D[s][t]
    THEN N[s][a] * N[b][t]
    ELSE 0

\* The share of the shortest paths from s to t that use the edge e.
Over(D, N, e, w, directed, s, t) ==
    IF s = t \/ ~(directed \/ s < t) \/ D[s][t] = Unreachable THEN Zero
    ELSE Frac(Along(D, N, e[1], e[2], w, s, t)
              + (IF directed THEN 0 ELSE Along(D, N, e[2], e[1], w, s, t)),
              N[s][t])

\* Graph.edge_betweenness(directed=G.is_directed(), weights=weight).
EdgeBetweennessOf(G, weight, D, N) ==
    [k \in 1..ecount(G) |->
        OverPairs(vcount(G),
                  LAMBDA s, t : Over(D, N, G.edges[k], EdgeWeight(G.edges[k], weight),
                                     G.directed, s, t))]

edge_betweenness(G, weight) ==
    With(distances(G, weight, G.directed),
         LAMBDA D : With(PathCounts(G, weight, G.directed, D),
                         LAMBDA N : EdgeBetweennessOf(G, weight, D, N)))

\* The scores as the library hands them back.
Unnormalized(raw, num, den) == raw

\* The scores d * normalize, normalize = num / den.
Normalized(raw, num, den) ==
    [k \in 1..Len(raw) |-> FracMul(raw[k], Frac(num, den))]

betweenness_centrality(G, weight) ==
    IF (vcount(G) - 1) * (vcount(G) - 2) = 0 THEN Raise("ZeroDivisionError")
    ELSE With(betweenness(G, weight),
              LAMBDA raw : Ok(Ranked(Normalized(raw, IF G.directed THEN 1 ELSE 2,
                                                (vcount(G) - 1) * (vcount(G) - 2)))))

edge_betweenness_centrality(G, weight) ==
    IF vcount(G) * (vcount(G) - 1) = 0 THEN Raise("ZeroDivisionError")
    ELSE With(edge_betweenness(G, weight),
              LAMBDA raw : Ok(Ranked(Normalized(raw, IF G.directed THEN 1 ELSE 2,
                                                vcount(G) * (vcount(G) - 1)))))

\* eigenvector_centrality, closeness_centrality and pagerank rank the scores
\* the library hands back; lib is that score vector, one score per vertex.
library_centrality(G, lib) ==
    Ok(Ranked([v \in Vertices(G) |-> Frac(lib[v], 1)]))

----------------------------------------------------------------------------
\* The graphs a run may be constructed with.

WeightOf(s, t) == 1 + ((s + t) % MaxW)

RECURSIVE EdgeSeq(_)
EdgeSeq(E) ==
    IF E = {} THEN <<>>
    ELSE LET e == CHOOSE x \in E :
                    \A y \in E : x[1] < y[1] \/ (x[1] = y[1] /\ x[2] <= y[2])
         IN  <<<<e[1], e[2], WeightOf(e[1], e[2])>>>> \o EdgeSeq(E \ {e})

MkGraph(n, E, d) ==
    [names |-> [p \in 1..n |-> p - 1], edges |-> EdgeSeq(E), directed |-> d]

PairsOf(n, d) == {p \in (1..n) \X (1..n) : p[1] # p[2] /\ (d \/ p[1] < p[2])}

\* Every simple graph within the bounds: undirected with at most MaxE
\* edges, directed with at most MaxArcs edges.
SmallGraphs ==
    UNION {UNION {{MkGraph(n, E, d) :
                     E \in {F \in SUBSET PairsOf(n, d) :
                              Cardinality(F) <= IF d THEN MaxArcs ELSE MaxE}} :
                  d \in BOOLEAN} :
           n \in 0..MaxV}

\* The graphs of the tests and of the documented scenarios.
TestGraph == MkGraph(4, {<<1, 2>>, <<1, 3>>, <<1, 4>>, <<2, 3>>, <<2, 4>>}, FALSE)

Path(n) == MkGraph(n, {<<p, p + 1>> : p \in 1..(n - 1)}, FALSE)

Cycle(n) == MkGraph(n, {<<p, p + 1>> : p \in 1..(n - 1)} \cup {<<1, n>>}, FALSE)

Star(n) == MkGraph(n, {<<1, p>> : p \in 2..n}, FALSE)

ExampleGraphs == {TestGraph, Path(4), Path(5), Cycle(6), Star(5)}

Graphs == SmallGraphs \cup ExampleGraphs

Budgets == (0 - 1)..MaxN

Weights == {"None", "weight"}

NodeMeasures == {"betweenness_centrality", "degree_centrality"}

EdgeMeasures == {"edge_betweenness_centrality"}

LibraryMeasures == {"eigenvector_centrality", "closeness_centrality", "pagerank"}

NoGraph == MkGraph(0, {}, FALSE)

----------------------------------------------------------------------------
\* State.

VARIABLES
    graph,           \* the object self.graph refers to
    graph0,          \* its value at construction (history)
    copied,          \* the object copy.deepcopy made for the running call
    graph_attacked,  \* the local reference: "None", "self" or "copy"
    pc,              \* "idle", "loop", "done" (returned), "ranked", "measured",
                     \* "error"
    method,          \* the method that is running
    centrality_method,
    weight,
    requested,       \* nattacks as passed by the caller
    nattacks,        \* nattacks after clamping
    i,               \* completed loop iterations
    nodes_attacked,
    edges_attacked,
    centrality,
    lcc,
    slcc,
    eff,
    ap,
    ranking,         \* what a centrality function returned
    err,             \* the exception that ended the call, or "none"
    rd,              \* the module-level generator: [seed, pos]
    words,           \* words[s]: the output of the generator seeded with s,
                     \* as far as it has been read
    trial            \* trial[t]: the locals of seeded random trial t

vars == <<graph, graph0, copied, graph_attacked, pc, method, centrality_method,
          weight, requested, nattacks, i, nodes_attacked, edges_attacked,
          centrality, lcc, slcc, eff, ap, ranking, err>>

\* The generator and the seeded trials that share it.
tvars == <<rd, words, trial>>

\* The object a reference refers to.
Deref(ref) == IF ref = "self" THEN graph ELSE copied

\* The last entry of a ranking.
Last(items) == items[Len(items)]

\* list(bc.keys())[0] and list(bc.values())[0]: the first entry of a ranking.
First(items) == items[1]

\* In-place mutation of the object behind graph_attacked.
Mutate(G) ==
    IF graph_attacked = "self"
    THEN graph' = G /\ UNCHANGED copied
    ELSE copied' = G /\ UNCHANGED graph

\* get_graph returning self.graph itself.
get_graph_shared == [ref |-> "self", obj |-> graph]

\* get_graph: a deep copy, a new object with the same value.
get_graph == [ref |-> "copy", obj |-> graph]

ClampBudget(n, count) ==
    LET low == IF n < 1 THEN 1 ELSE n
    IN  IF low > count THEN count ELSE low

\* The three series with the measurements of G appended, the efficiency
\* appended only to the first two.
AppendedShort(G, w) ==
    [lcc |-> Append(lcc, largest_connected_component(G)),
     slcc |-> Append(slcc, second_largest_connected_component(G)),
     eff |-> eff]

\* The three series with the measurements of G appended.
Appended(G, w) ==
    [lcc |-> Append(lcc, largest_connected_component(G)),
     slcc |-> Append(slcc, second_largest_connected_component(G)),
     eff |-> Append(eff, global_efficiency(G, w))]

Record(G, w) ==
    \E series \in {Appended(G, w)} :
        /\ lcc' = series.lcc
        /\ slcc' = series.slcc
        /\ eff' = series.eff

\* The ranking a centrality method returns for G.
Rank(m, G, w) ==
    CASE m = "betweenness_centrality" -> betweenness_centrality(G, w)
      [] m = "degree_centrality" -> degree_centrality(G, w)
      [] m = "edge_betweenness_centrality" -> edge_betweenness_centrality(G, w)

\* The module-level generator of random (import random as rd).  A word is
\* one output of the generator, WordBits wide; the words a seed yields are
\* fixed by the seed and become known as they are read.

RECURSIVE bit_length(_)
bit_length(n) == IF n = 0 THEN 0 ELSE 1 + bit_length(n \div 2)

\* The width of a word: the least that holds the largest population drawn
\* from (CPython's generator puts out 32-bit words).
WordBits == bit_length(MaxTrialV)

Words == 0..(2 ^ WordBits - 1)

Seeds == 1..MaxSeeds

Trials == 1..2

\* getrandbits(k) of one word: its k leading bits.
getrandbits(word, k) == word \div (2 ^ (WordBits - k))

\* _randbelow(n) read from position p of the words ws: words are drawn until
\* one yields a value below n.  known is FALSE when ws ends before that.
RECURSIVE randbelow(_, _, _)
randbelow(ws, p, n) ==
    IF p + 1 > Len(ws) THEN [known |-> FALSE, r |-> 0, pos |-> p]
    ELSE With(getrandbits(ws[p + 1], bit_length(n)),
              LAMBDA r : IF r >= n THEN randbelow(ws, p + 1, n)
                         ELSE [known |-> TRUE, r |-> r, pos |-> p + 1])

\* The words that may be read next, ws being known: none, or up to the cap
\* MaxWords some that the generator has not put out before.
Unread(ws) == UNION {[1..k -> Words] : k \in 0..(MaxWords - Len(ws))}

\* A seed call that leaves the generator where it is in its output.
SeededInPlace(s) == [seed |-> s, pos |-> rd.pos]

\* rd.seed(s): the generator restarts the output of seed s.
Seeded(s) == [seed |-> s, pos |-> 0]

\* The generator as the import leaves it.
Unseeded == [seed |-> 0, pos |-> 0]

\* A trial that has not been called.
NoTrial ==
    [pc |-> "idle", method |-> "None", weight |-> "None", requested |-> 0,
     nattacks |-> 0, seed |-> 0, alone |-> TRUE, i |-> 0, ref |-> "None",
     obj |-> NoGraph, nodes_attacked |-> <<>>, edges_attacked |-> <<>>,
     lcc |-> <<>>, slcc |-> <<>>, eff |-> <<>>]

Init ==
    /\ graph \in Graphs
    /\ graph0 = graph
    /\ copied = NoGraph
    /\ graph_attacked = "None"
    /\ pc = "idle"
    /\ method = "None"
    /\ centrality_method = "None"
    /\ weight = "None"
    /\ requested = 0
    /\ nattacks = 0
    /\ i = 0
    /\ nodes_attacked = <<>>
    /\ edges_attacked = <<>>
    /\ centrality = <<>>
    /\ lcc = <<>>
    /\ slcc = <<>>
    /\ eff = <<>>
    /\ ap = <<>>
    /\ ranking = <<>>
    /\ err = "none"
    /\ rd = Unseeded
    /\ words = [s \in Seeds |-> <<>>]
    /\ trial = [t \in Trials |-> NoTrial]

\* Entry of an attack method up to the loop: clamp, copy, baseline.
Enter(name, m, n, w, count, w0) ==
    /\ pc = "idle"
    /\ pc' = "loop"
    /\ method' = name
    /\ centrality_method' = m
    /\ weight' = w
    /\ requested' = n
    /\ nattacks' = ClampBudget(n, count)
    /\ graph_attacked' = get_graph.ref
    /\ copied' = get_graph.obj
    /\ i' = 0
    /\ nodes_attacked' = <<>>
    /\ edges_attacked' = <<>>
    /\ centrality' = <<>>
    /\ Record(get_graph.obj, w0)
    /\ UNCHANGED <<graph, graph0, ranking, err, tvars>>

\* An exception leaves the method; the locals are as the exception found them.
Fail(e) ==
    /\ pc' = "error"
    /\ err' = e
    /\ UNCHANGED <<graph, graph0, copied, graph_attacked, method, centrality_method,
                   weight, requested, nattacks, i, nodes_attacked, edges_attacked,
                   centrality, lcc, slcc, eff, ap, ranking, tvars>>

StartNodeCentrality ==
    \E n \in Budgets, w \in Weights, m \in NodeMeasures :
        /\ Enter("node_iterative_centrality_attack", m, n, w, vcount(graph), w)
        /\ ap' = ap

StepNodeCentrality ==
    /\ pc = "loop"
    /\ method = "node_iterative_centrality_attack"
    /\ i < nattacks
    /\ \E G \in {Deref(graph_attacked)} :
       \E bc \in {Rank(centrality_method, G, weight)} :
           IF bc.err # "none" THEN Fail(bc.err)
           ELSE IF bc.items = <<>> THEN Fail("IndexError")
           ELSE \E node \in {First(bc.items).elem} :
                \E H \in {delete_vertices(G, node)} :
                    /\ nodes_attacked' = Append(nodes_attacked, G.names[node])
                    /\ Mutate(H)
                    /\ Record(H, weight)
                    /\ centrality' = Append(centrality, First(bc.items).score)
                    /\ i' = i + 1
                    /\ UNCHANGED <<graph0, graph_attacked, pc, method,
                                   centrality_method, weight, requested, nattacks,
                                   edges_attacked, ap, ranking, err, tvars>>

StartEdgeCentrality ==
    \E n \in Budgets, w \in Weights, m \in EdgeMeasures :
        /\ Enter("edge_iterative_centrality_attack", m, n, w, ecount(graph), w)
        /\ ap' = ap

StepEdgeCentrality ==
    /\ pc = "loop"
    /\ method = "edge_iterative_centrality_attack"
    /\ i < nattacks
    /\ \E G \in {Deref(graph_attacked)} :
       \E bc \in {Rank(centrality_method, G, weight)} :
           IF bc.err # "none" THEN Fail(bc.err)
           ELSE IF bc.items = <<>> THEN Fail("IndexError")
           ELSE \E edge \in {First(bc.items).elem} :
                \E H \in {delete_edges(G, edge)} :
                    /\ edges_attacked' = Append(edges_attacked,
                            <<G.names[G.edges[edge][1]], G.names[G.edges[edge][2]]>>)
                    /\ Mutate(H)
                    /\ Record(H, weight)
                    /\ centrality' = Append(centrality, First(bc.items).score)
                    /\ i' = i + 1
                    /\ UNCHANGED <<graph0, graph_attacked, pc, method,
                                   centrality_method, weight, requested, nattacks,
                                   nodes_attacked, ap, ranking, err, tvars>>

\* The budget is clamped to the vertex count and the baseline efficiency is
\* taken without the weight selector.
StartArticulationPoint ==
    \E n \in Budgets, w \in Weights :
        /\ pc = "idle"
        /\ Enter("articulation_point_targeted_attack", "None", n, w,
                 vcount(get_graph.obj), "None")
        /\ ap' = articulation_points(get_graph.obj)

\* ap[i] is an integer: ap[i]["name"] raises TypeError, IndexError when the
\* list has no i-th entry.
StepArticulationPoint ==
    /\ pc = "loop"
    /\ method = "articulation_point_targeted_attack"
    /\ i < nattacks
    /\ IF i + 1 > Len(ap) THEN Fail("IndexError") ELSE Fail("TypeError")

StartRandom ==
    \E n \in Budgets, w \in Weights :
        /\ Enter("random_attack", "None", n, w, vcount(graph), w)
        /\ ap' = ap

StepRandom ==
    /\ pc = "loop"
    /\ method = "random_attack"
    /\ i < nattacks
    /\ \E G \in {Deref(graph_attacked)} :
           IF vcount(G) = 0 THEN Fail("ValueError")
           ELSE \E node \in Vertices(G) :
                \E H \in {delete_vertices(G, node)} :
                    /\ nodes_attacked' = Append(nodes_attacked, G.names[node])
                    /\ Mutate(H)
                    /\ Record(H, weight)
                    /\ i' = i + 1
                    /\ UNCHANGED <<graph0, graph_attacked, pc, method,
                                   centrality_method, weight, requested, nattacks,
                                   edges_attacked, centrality, ap, ranking, err, tvars>>

StartEdgeRandom ==
    \E n \in Budgets, w \in Weights :
        /\ Enter("edge_random_attack", "None", n, w, ecount(graph), w)
        /\ ap' = ap

StepEdgeRandom ==
    /\ pc = "loop"
    /\ method = "edge_random_attack"
    /\ i < nattacks
    /\ \E G \in {Deref(graph_attacked)} :
           IF ecount(G) = 0 THEN Fail("ValueError")
           ELSE \E edge \in 1..ecount(G) :
                \E H \in {delete_edges(G, edge)} :
                    /\ edges_attacked' = Append(edges_attacked,
                            <<G.names[G.edges[edge][1]], G.names[G.edges[edge][2]]>>)
                    /\ Mutate(H)
                    /\ Record(H, weight)
                    /\ i' = i + 1
                    /\ UNCHANGED <<graph0, graph_attacked, pc, method,
                                   centrality_method, weight, requested, nattacks,
                                   nodes_attacked, centrality, ap, ranking, err, tvars>>

\* The loop is exhausted: the method returns its tuple.
ReturnAttack ==
    /\ pc = "loop"
    /\ i = nattacks
    /\ pc' = "done"
    /\ UNCHANGED <<graph, graph0, copied, graph_attacked, method, centrality_method,
                   weight, requested, nattacks, i, nodes_attacked, edges_attacked,
                   centrality, lcc, slcc, eff, ap, ranking, err, tvars>>

\* What a centrality function returned r: a ranking or an exception.
Ranking(m, w, r) ==
    /\ pc' = IF r.err = "none" THEN "ranked" ELSE "error"
    /\ err' = r.err
    /\ ranking' = r.items
    /\ method' = m
    /\ weight' = w
    /\ UNCHANGED <<graph, graph0, copied, graph_attacked, centrality_method,
                   requested, nattacks, i, nodes_attacked, edges_attacked,
                   centrality, lcc, slcc, eff, ap, tvars>>

\* A centrality function called on self.graph (NetworkAnalysis).
Centrality ==
    /\ pc = "idle"
    /\ \E w \in Weights, m \in NodeMeasures \cup EdgeMeasures :
       \E r \in {Rank(m, graph, w)} :
           Ranking(m, w, r)

\* The same for the measures whose scores the library iterates.
LibraryCentrality ==
    /\ pc = "idle"
    /\ \E m \in LibraryMeasures :
       \E lib \in [Vertices(graph) -> 0..MaxScore] :
       \E r \in {library_centrality(graph, lib)} :
           Ranking(m, "None", r)

\* The connectivity measures called on self.graph (NetworkAnalysis):
\* largest_connected_component, second_largest_connected_component,
\* global_efficiency and articulation_points, each a pure function of the
\* graph.
Measure ==
    /\ pc = "idle"
    /\ \E w \in Weights :
           /\ pc' = "measured"
           /\ method' = "measures"
           /\ weight' = w
           /\ lcc' = <<largest_connected_component(graph)>>
           /\ slcc' = <<second_largest_connected_component(graph)>>
           /\ eff' = <<global_efficiency(graph, w)>>
           /\ ap' = articulation_points(graph)
    /\ UNCHANGED <<graph, graph0, copied, graph_attacked, centrality_method,
                   requested, nattacks, i, nodes_attacked, edges_attacked,
                   centrality, ranking, err, tvars>>

\* The caller is done with the result; the object is ready for the next call.
Idle ==
    /\ pc \in {"done", "ranked", "measured", "error"}
    /\ pc' = "idle"
    /\ copied' = NoGraph
    /\ graph_attacked' = "None"
    /\ method' = "None"
    /\ centrality_method' = "None"
    /\ weight' = "None"
    /\ requested' = 0
    /\ nattacks' = 0
    /\ i' = 0
    /\ nodes_attacked' = <<>>
    /\ edges_attacked' = <<>>
    /\ centrality' = <<>>
    /\ lcc' = <<>>
    /\ slcc' = <<>>
    /\ eff' = <<>>
    /\ ap' = <<>>
    /\ ranking' = <<>>
    /\ err' = "none"
    /\ UNCHANGED <<graph, graph0, tvars>>

Next ==
    \/ StartNodeCentrality
    \/ StepNodeCentrality
    \/ StartEdgeCentrality
    \/ StepEdgeCentrality
    \/ StartArticulationPoint
    \/ StepArticulationPoint
    \/ StartRandom
    \/ StepRandom
    \/ StartEdgeRandom
    \/ StepEdgeRandom
    \/ ReturnAttack
    \/ Centrality
    \/ LibraryCentrality
    \/ Measure
    \/ Idle

Spec == Init /\ [][Next]_vars

----------------------------------------------------------------------------
\* Seeded random trials: two callers of random_attack / edge_random_attack
\* on one NetworkDismantling object.  Each caller seeds the generator
\* (rd.seed(s)) and calls the method; the loop passes of the two calls
\* interleave in any order.  The trials are repetitions of one call (same
\* method, same budget, weight selector at its default); trial 1 is the one
\* called first, seed 1 the seed used first.

RandomMethods == {"random_attack", "edge_random_attack"}

TrialBudgets == 1..MaxTrialN

\* The graphs of the trials.
TrialGraphs == {Path(MaxTrialV), Cycle(MaxTrialV)}

\* The variables of the single-call model other than self.graph.
callvars == <<graph0, copied, graph_attacked, pc, method, centrality_method,
              weight, requested, nattacks, i, nodes_attacked, edges_attacked,
              centrality, lcc, slcc, eff, ap, ranking, err>>

\* len(list(graph_attacked.vs)) resp. len(list(graph_attacked.es)).
Population(name, G) == IF name = "random_attack" THEN vcount(G) ELSE ecount(G)

\* The object behind the graph_attacked of a trial.
TrialGraph(tr) == IF tr.ref = "self" THEN graph ELSE tr.obj

\* The locals of a trial when it enters its loop: budget clamped against
\* count, working graph g, baseline recorded.
TrialEntered(name, n, w, s, g, count, alone) ==
    [pc |-> "loop", method |-> name, weight |-> w, requested |-> n,
     nattacks |-> ClampBudget(n, count), seed |-> s, alone |-> alone, i |-> 0,
     ref |-> g.ref, obj |-> IF g.ref = "self" THEN NoGraph ELSE g.obj,
     nodes_attacked |-> <<>>, edges_attacked |-> <<>>,
     lcc |-> <<largest_connected_component(g.obj)>>,
     slcc |-> <<second_largest_connected_component(g.obj)>>,
     eff |-> <<global_efficiency(g.obj, w)>>]

\* G without element j (0-based) of the population.
Sampled(name, G, j) ==
    IF name = "random_attack" THEN delete_vertices(G, j + 1)
    ELSE delete_edges(G, j + 1)

\* The locals after one pass of the loop body that drew element j of the
\* working graph G and left H.
TrialStep(tr, G, H, j) ==
    [tr EXCEPT
        !.i = @ + 1,
        !.obj = IF tr.ref = "self" THEN @ ELSE H,
        !.nodes_attacked =
            IF tr.method = "random_attack" THEN Append(@, G.names[j + 1]) ELSE @,
        !.edges_attacked =
            IF tr.method = "random_attack" THEN @
            ELSE Append(@, <<G.names[G.edges[j + 1][1]], G.names[G.edges[j + 1][2]]>>),
        !.lcc = Append(@, largest_connected_component(H)),
        !.slcc = Append(@, second_largest_connected_component(H)),
        !.eff = Append(@, global_efficiency(H, tr.weight))]

\* The caller seeds the generator and calls the method, which runs up to
\* its loop.
StartTrial(t) ==
    /\ pc = "idle"
    /\ trial[t].pc = "idle"
    /\ \A u \in Trials : u < t => trial[u].pc # "idle"
    /\ \E name \in RandomMethods, n \in TrialBudgets, w \in {"None"}, s \in Seeds :
           /\ s <= t
           /\ \A u \in Trials :
                 trial[u].pc # "idle" =>
                     name = trial[u].method /\ n = trial[u].requested
           /\ rd' = Seeded(s)
           /\ trial' = [trial EXCEPT ![t] =
                 TrialEntered(name, n, w, s, get_graph, Population(name, graph),
                              \A u \in Trials : trial[u].pc # "loop")]
    /\ UNCHANGED <<graph, callvars, words>>

\* One pass of the loop of trial t: rd.sample(population, 1) reads the shared
\* generator, the element drawn is removed and the series are extended.
StepTrial(t) ==
    /\ trial[t].pc = "loop"
    /\ trial[t].i < trial[t].nattacks
    /\ \E tr \in {trial[t]} :
       \E G \in {TrialGraph(tr)} :
           IF Population(tr.method, G) = 0
           THEN /\ trial' = [trial EXCEPT ![t].pc = "error"]
                /\ UNCHANGED <<graph, rd, words>>
           ELSE \E unread \in Unread(words[rd.seed]) :
                \E ws \in {words[rd.seed] \o unread} :
                \E d \in {randbelow(ws, rd.pos, Population(tr.method, G))} :
                    /\ d.known
                    /\ unread = <<>> \/ d.pos = Len(ws)
                    /\ \E H \in {Sampled(tr.method, G, d.r)} :
                           /\ words' = [words EXCEPT ![rd.seed] = ws]
                           /\ rd' = [rd EXCEPT !.pos = d.pos]
                           /\ trial' = [trial EXCEPT ![t] = TrialStep(tr, G, H, d.r)]
                           /\ graph' = IF tr.ref = "self" THEN H ELSE graph
    /\ UNCHANGED callvars

\* The loop of trial t is exhausted: the method returns.
ReturnTrial(t) ==
    /\ trial[t].pc = "loop"
    /\ trial[t].i = trial[t].nattacks
    /\ trial' = [trial EXCEPT ![t].pc = "done"]
    /\ UNCHANGED <<graph, callvars, rd, words>>

TrialInit == Init /\ graph \in TrialGraphs

TrialNext ==
    \/ \E t \in Trials : StartTrial(t)
    \/ \E t \in Trials : StepTrial(t)
    \/ \E t \in Trials : ReturnTrial(t)

TrialSpec == TrialInit /\ [][TrialNext]_<<vars, tvars>>

----------------------------------------------------------------------------
\* Vocabulary of the properties.

NodeMethods == {"node_iterative_centrality_attack", "random_attack",
                "articulation_point_targeted_attack"}

EdgeMethods == {"edge_iterative_centrality_attack", "edge_random_attack"}

TargetedMethods == {"node_iterative_centrality_attack",
                    "edge_iterative_centrality_attack"}

InAttack == method \in NodeMethods \cup EdgeMethods

\* The call has ended: it returned or it raised.
Ended == pc \in {"done", "error"}

\* The removals performed so far, counted on the working graph.
Removals ==
    IF method \in NodeMethods
    THEN vcount(graph0) - vcount(Deref(graph_attacked))
    ELSE ecount(graph0) - ecount(Deref(graph_attacked))

\* The removable elements of the four strategies that draw from the whole graph.
Removable == IF method \in NodeMethods THEN vcount(graph0) ELSE ecount(graph0)

\* n clamped to [1, count].
Clamped(n, count) ==
    IF count < 1 THEN count ELSE IF n < 1 THEN 1 ELSE IF n > count THEN count ELSE n

\* The score an element has in a ranking.
ScoreIn(items, x) == (CHOOSE k \in {items[j] : j \in 1..Len(items)} : k.elem = x).score

\* x is the element of maximal score in the ranking, the lowest index among
\* those.
IsTop(items, x) ==
    \A j \in 1..Len(items) :
        /\ ~FracLess(ScoreIn(items, x), items[j].score)
        /\ items[j].score = ScoreIn(items, x) => x <= items[j].elem

\* The attack trace of a trial: what the method returns besides the graph.
Trace(tr) == <<tr.nodes_attacked, tr.edges_attacked, tr.lcc, tr.slcc, tr.eff>>

\* The trial tr as it ends when it runs with nothing else reading the
\* generator, from position p of the words ws of its seed; known is FALSE
\* when ws ends before the trial does.
RECURSIVE AloneRun(_, _, _)
AloneRun(tr, ws, p) ==
    IF tr.i = tr.nattacks THEN [known |-> TRUE, tr |-> tr]
    ELSE With(randbelow(ws, p, Population(tr.method, tr.obj)),
              LAMBDA d :
                  IF ~d.known THEN [known |-> FALSE, tr |-> tr]
                  ELSE AloneRun(TrialStep(tr, tr.obj,
                                          Sampled(tr.method, tr.obj, d.r), d.r),
                                ws, d.pos))

\* The run of the call of trial tr alone, freshly seeded, on a private copy
\* of the graph the object was constructed with.
Alone(tr) ==
    AloneRun(TrialEntered(tr.method, tr.requested, tr.weight, tr.seed,
                          [ref |-> "copy", obj |-> graph0],
                          Population(tr.method, graph0), TRUE),
             words[tr.seed], 0)

\* Two trials made the same call with the same seed.
SameCall(a, b) ==
    /\ a.method = b.method
    /\ a.requested = b.requested
    /\ a.weight = b.weight
    /\ a.seed = b.seed

\* The vertices joined to a vertex of S by an edge, direction ignored.
Around(G, S) ==
    S \cup {v \in Vertices(G) :
              \E k \in 1..ecount(G) :
                  \/ G.edges[k][1] = v /\ G.edges[k][2] \in S
                  \/ G.edges[k][2] = v /\ G.edges[k][1] \in S}

\* The number of edges of a shortest path from the set S (k edges away
\* from its start) to t, direction ignored; Unreachable when there is none.
RECURSIVE Hops(_, _, _, _)
Hops(G, S, t, k) ==
    IF t \in S THEN k
    ELSE IF Around(G, S) = S THEN Unreachable
    ELSE Hops(G, Around(G, S), t, k + 1)

\* The sum of 1 / d(i, j) over the pairs of P that a path joins.
RECURSIVE InverseSum(_, _)
InverseSum(G, P) ==
    IF P = {} THEN Zero
    ELSE LET p == CHOOSE x \in P : TRUE
             d == Hops(G, {p[1]}, p[2], 0)
         IN  FracAdd(IF d = Unreachable THEN Zero ELSE Frac(1, d),
                     InverseSum(G, P \ {p}))

\* The ordered pairs of distinct vertices.
OrderedPairs(G) == {p \in Vertices(G) \X Vertices(G) : p[1] # p[2]}

\* Every two distinct vertices are joined by an edge.
Complete(G) ==
    \A p \in OrderedPairs(G) :
        \E k \in 1..ecount(G) :
            \/ G.edges[k][1] = p[1] /\ G.edges[k][2] = p[2]
            \/ G.edges[k][1] = p[2] /\ G.edges[k][2] = p[1]

\* The vertices that paths from S reach, direction ignored.
RECURSIVE Reach(_, _)
Reach(G, S) == IF Around(G, S) = S THEN S ELSE Reach(G, Around(G, S))

\* The components over undirected reachability.
WeakComponents(G) == {Reach(G, {v}) : v \in Vertices(G)}

\* The size of a largest set of C, 0 when C is empty.
LargestSize(C) == IF C = {} THEN 0 ELSE SetMax({Cardinality(c) : c \in C})

\* The second entry of the sizes of C in descending order, 0 without one.
SecondSize(C) ==
    IF C = {} THEN 0
    ELSE LargestSize(C \ {CHOOSE c \in C : Cardinality(c) = LargestSize(C)})

\* The neighbours of a vertex.
Neighbours(G, v) == Around(G, {v}) \ {v}

\* The ranking of the star with 4 leaves: the centre with score c, then the
\* leaves in index order with score l.
StarRanking(c, l) ==
    <<[elem |-> 1, score |-> c]>> \o [k \in 1..4 |-> [elem |-> k + 1, score |-> l]]

\* The edges of a graph by the names of their ends.
NamedEdges(G) ==
    {<<G.names[G.edges[k][1]], G.names[G.edges[k][2]], G.edges[k][3]>> :
        k \in 1..ecount(G)}

\* H is G without one vertex, the one named x, and without the edges at
\* that vertex; every other vertex and edge is as it was.
OneVertexLess(G, H, x) ==
    /\ \E v \in Vertices(G) : G.names[v] = x /\ H.names = RemoveAt(G.names, v)
    /\ NamedEdges(H) = {e \in NamedEdges(G) : e[1] # x /\ e[2] # x}
    /\ ecount(H) = Cardinality(NamedEdges(H))
    /\ H.directed = G.directed

\* H is G without one edge, one that joins the vertices named x and y;
\* every vertex and every other edge is as it was.
OneEdgeLess(G, H, x, y) ==
    /\ H.names = G.names
    /\ H.directed = G.directed
    /\ \E e \in 1..ecount(G) :
          /\ H.edges = RemoveAt(G.edges, e)
          /\ G.names[G.edges[e][1]] = x
          /\ G.names[G.edges[e][2]] = y

\* The entries of a sequence are pairwise distinct.
Distinct(s) == Cardinality({s[k] : k \in 1..Len(s)}) = Len(s)

----------------------------------------------------------------------------
\* C1: in every attack the baseline is recorded before the first removal
\* (with nothing removed the series hold the values of the initial graph);
\* while the loop runs and on return the three series have the same length
\* k + 1 and the list of removed identifiers (and of recorded scores, in the
\* targeted attacks) has length k, k the number of removals performed.
C1_SeriesLengths ==
    (InAttack /\ pc \in {"loop", "done"}) =>
        /\ Removals = i
        /\ Len(lcc) = Removals + 1
        /\ Len(slcc) = Removals + 1
        /\ Len(eff) = Removals + 1
        /\ Len(nodes_attacked) = (IF method \in NodeMethods THEN Removals ELSE 0)
        /\ Len(edges_attacked) = (IF method \in EdgeMethods THEN Removals ELSE 0)
        /\ method \in TargetedMethods => Len(centrality) = Removals
        /\ Removals = 0 =>
              /\ lcc = <<largest_connected_component(graph0)>>
              /\ slcc = <<second_largest_connected_component(graph0)>>

C1_Witness ==
    /\ pc = "done"
    /\ method = "node_iterative_centrality_attack"
    /\ Len(nodes_attacked) = 2
    /\ Len(centrality) = 2
    /\ Len(eff) = 3

\* C2: in the node and edge attacks that draw from the whole graph, the
\* number of removals performed is the requested budget clamped to
\* [1, count of removable elements], and no error is raised.
C2_BudgetClamped ==
    (method \in (NodeMethods \cup EdgeMethods)
                    \ {"articulation_point_targeted_attack"} /\ Ended) =>
        /\ err = "none"
        /\ Removals = Clamped(requested, Removable)

\* C3: no attack mutates self.graph; the removals happen on a deep copy,
\* another object than self.graph.
C3_GraphUntouched ==
    /\ graph = graph0
    /\ graph_attacked # "self"
    /\ (InAttack /\ pc \in {"loop", "done"}) => graph_attacked = "copy"

C3_Witness ==
    /\ pc = "done"
    /\ InAttack
    /\ Removals >= 2
    /\ copied # graph
    /\ graph = graph0

\* C4: the articulation-point attack removes, at step k, the k-th
\* articulation point of the initial graph and records its name.
C4_ArticulationOrder ==
    (method = "articulation_point_targeted_attack" /\ Ended) =>
        \A k \in 1..Len(ap) :
            k <= nattacks =>
                /\ k <= Len(nodes_attacked)
                /\ nodes_attacked[k] = graph0.names[ap[k]]
                /\ \A p \in Vertices(Deref(graph_attacked)) :
                       Deref(graph_attacked).names[p] # graph0.names[ap[k]]

\* C5: the articulation-point attack clamps its budget to the number of
\* articulation points and completes without error.
C5_ArticulationClamp ==
    (method = "articulation_point_targeted_attack" /\ pc # "idle") =>
        /\ nattacks <= Len(ap)
        /\ err = "none"

\* C6: a centrality-targeted attack never raises.
C6_NoPartialFailure ==
    method \in TargetedMethods => pc # "error"

\* C7: every step of a targeted attack ranks the current working graph,
\* removes the first element of that ranking (maximal score, lowest index
\* among equals) and records that element's names and its score.
C7_Step(G, H, items) ==
    IF method = "node_iterative_centrality_attack"
    THEN \E x \in Vertices(G) :
            /\ IsTop(items, x)
            /\ H = delete_vertices(G, x)
            /\ nodes_attacked' = Append(nodes_attacked, G.names[x])
            /\ centrality' = Append(centrality, ScoreIn(items, x))
    ELSE \E x \in 1..ecount(G) :
            /\ IsTop(items, x)
            /\ H = delete_edges(G, x)
            /\ edges_attacked' = Append(edges_attacked,
                    <<G.names[G.edges[x][1]], G.names[G.edges[x][2]]>>)
            /\ centrality' = Append(centrality, ScoreIn(items, x))

C7_FreshRanking ==
    [][(method \in TargetedMethods /\ pc = "loop" /\ i' = i + 1) =>
          \A G \in {copied} :
          \A r \in {Rank(centrality_method, G, weight)} :
              r.err = "none" /\ C7_Step(G, copied', r.items)]_vars

\* A second step whose victim (name 0) is not the runner-up of the first
\* ranking (name 2).
C7_Witness ==
    /\ method = "node_iterative_centrality_attack"
    /\ centrality_method = "betweenness_centrality"
    /\ pc = "done"
    /\ graph0 = Path(4)
    /\ nodes_attacked = <<1, 0>>
    /\ centrality = <<Frac(2, 3), Zero>>

C9_AllRemoved ==
    (method \in NodeMethods /\ Ended /\ requested = vcount(graph0)
        /\ vcount(graph0) >= 1) =>
        /\ err = "none"
        /\ vcount(Deref(graph_attacked)) = 0
        /\ lcc[Len(lcc)] = 0

\* C10: betweenness_centrality of a graph with fewer than 3 vertices
\* returns score 0 for every vertex and raises nothing.
C10_SmallBetweenness ==
    (method = "betweenness_centrality" /\ pc \in {"ranked", "error"}
        /\ vcount(graph) < 3) =>
        /\ err = "none"
        /\ Len(ranking) = vcount(graph)
        /\ \A j \in 1..Len(ranking) : ranking[j].score = Zero

\* C11: degree_centrality of a graph with at most one vertex returns score 0
\* for every vertex (nothing for the empty graph) and raises nothing.
C11_SmallDegree ==
    (method = "degree_centrality" /\ pc \in {"ranked", "error"}
        /\ vcount(graph) <= 1) =>
        /\ err = "none"
        /\ Len(ranking) = vcount(graph)
        /\ \A j \in 1..Len(ranking) : ranking[j].score = Zero

\* C12: a seeded random trial that another trial is interleaved with
\* returns the trace it returns when it runs alone with the same seed.
C12_TrialsIndependent ==
    \A t \in Trials :
        trial[t].pc = "done" =>
            \A alone \in {Alone(trial[t])} :
                alone.known => Trace(alone.tr) = Trace(trial[t])

\* C13: two random-attack runs, one after the other, on the same object
\* with the same method, budget and seed return the same removed names and
\* the same three series.
C13_Reproducible ==
    (/\ trial[1].pc = "done" /\ trial[2].pc = "done"
     /\ trial[1].alone /\ trial[2].alone
     /\ SameCall(trial[1], trial[2])) =>
        Trace(trial[1]) = Trace(trial[2])

C13_Witness ==
    /\ trial[1].pc = "done" /\ trial[2].pc = "done"
    /\ trial[1].alone /\ trial[2].alone
    /\ SameCall(trial[1], trial[2])
    /\ trial[1].method = "random_attack"
    /\ trial[1].requested = 2
    /\ trial[2].nodes_attacked = <<1, 0>>
    /\ trial[2].lcc = <<2, 1, 0>>

\* C14: the unweighted global efficiency is the sum of 1 / d(i, j) over the
\* ordered pairs of distinct vertices joined by a path, divided by V (V - 1);
\* it is 0 for V < 2, 1 for a complete graph and lies in [0, 1].
C14_Efficiency ==
    (pc = "measured" /\ weight = "None") =>
        /\ vcount(graph) < 2 => eff[1] = Zero
        /\ vcount(graph) >= 2 =>
              eff[1] = FracMul(InverseSum(graph, OrderedPairs(graph)),
                               Frac(1, vcount(graph) * (vcount(graph) - 1)))
        /\ (vcount(graph) >= 2 /\ Complete(graph)) => eff[1] = Frac(1, 1)
        /\ ~FracLess(eff[1], Zero)
        /\ ~FracLess(Frac(1, 1), eff[1])

C14_Witness ==
    /\ pc = "measured"
    /\ weight = "None"
    /\ graph = TestGraph
    /\ eff = <<Frac(11, 12)>>

\* C15: largest_connected_component is the size of a largest component (0
\* on the empty graph), second_largest_connected_component the second entry
\* of the component sizes in descending order (0 with fewer than two
\* components), the components taken over undirected reachability.
C15_ComponentSizes ==
    pc = "measured" =>
        /\ lcc[1] = LargestSize(WeakComponents(graph))
        /\ slcc[1] = SecondSize(WeakComponents(graph))

\* C16: on the path 0-1-2-3-4 the articulation-point attack with n = 1
\* removes vertex 2 and records largest component 2, second largest 2.
C16_PathScenario ==
    (method = "articulation_point_targeted_attack" /\ Ended /\ requested = 1
        /\ graph0 = Path(5)) =>
        /\ err = "none"
        /\ nodes_attacked = <<2>>
        /\ lcc = <<5, 2>>
        /\ slcc = <<0, 2>>

\* C17: on the star with 4 leaves the centre has degree centrality 1 and
\* betweenness 1, a leaf 1/4 and 0; the node attack with n = 1 removes the
\* centre and records largest component 1, second largest 1.
C17_StarScenario ==
    /\ (pc = "ranked" /\ method = "degree_centrality" /\ graph = Star(5)) =>
          ranking = StarRanking(Frac(1, 1), Frac(1, 4))
    /\ (pc = "ranked" /\ method = "betweenness_centrality" /\ graph = Star(5)) =>
          ranking = StarRanking(Frac(1, 1), Zero)
    /\ (method = "node_iterative_centrality_attack" /\ Ended /\ requested = 1
          /\ graph0 = Star(5)) =>
          /\ err = "none"
          /\ nodes_attacked = <<0>>
          /\ lcc = <<5, 1>>
          /\ slcc = <<0, 1>>

C17_Witness ==
    /\ pc = "done"
    /\ method = "node_iterative_centrality_attack"
    /\ centrality_method = "betweenness_centrality"
    /\ graph0 = Star(5)
    /\ requested = 1
    /\ nodes_attacked = <<0>>
    /\ centrality = <<Frac(1, 1)>>
    /\ lcc = <<5, 1>>

\* C18: on an undirected simple graph with V >= 2, degree_centrality gives
\* each vertex deg(v) / (V - 1), a value in [0, 1], and the degrees sum to
\* 2 E.
C18_DegreeCentrality ==
    (pc = "ranked" /\ method = "degree_centrality" /\ ~graph.directed
        /\ vcount(graph) >= 2) =>
        /\ \A j \in 1..Len(ranking) :
              /\ ranking[j].score =
                    Frac(Cardinality(Neighbours(graph, ranking[j].elem)),
                         vcount(graph) - 1)
              /\ ~FracLess(ranking[j].score, Zero)
              /\ ~FracLess(Frac(1, 1), ranking[j].score)
        /\ FracMul(FracSum([j \in 1..Len(ranking) |-> ranking[j].score],
                           Len(ranking)),
                   Frac(vcount(graph) - 1, 1)) = Frac(2 * ecount(graph), 1)

C18_Witness ==
    /\ pc = "ranked"
    /\ method = "degree_centrality"
    /\ graph = TestGraph
    /\ ranking[1].score = Frac(1, 1)
    /\ ranking[3].score = Frac(2, 3)

\* C19: the entries of the efficiency series, the baseline included, are
\* the global efficiency under the weight selector of the call.
C19_WeightedSeries ==
    (InAttack /\ pc \in {"loop", "done", "error"}) =>
        /\ eff[1] = global_efficiency(graph0, weight)
        /\ eff[Len(eff)] = global_efficiency(Deref(graph_attacked), weight)

\* C20: each completed step of an attack removes exactly one element of the
\* working graph, the one it records: a node step one vertex with its
\* incident edges, an edge step one edge and no vertex.  After k steps a
\* node attack leaves V - k vertices and k distinct names, an edge attack V
\* vertices and E - k edges.
C20_OneElementPerStep ==
    [][(InAttack /\ pc = "loop" /\ i' = i + 1) =>
          IF method \in NodeMethods
          THEN /\ OneVertexLess(copied, copied', nodes_attacked'[i'])
               /\ vcount(copied') = vcount(graph0) - i'
               /\ Len(nodes_attacked') = i'
               /\ Distinct(nodes_attacked')
          ELSE /\ OneEdgeLess(copied, copied', edges_attacked'[i'][1],
                              edges_attacked'[i'][2])
               /\ vcount(copied') = vcount(graph0)
               /\ ecount(copied') = ecount(graph0) - i'
      ]_vars

C20_Witness ==
    /\ pc = "done"
    /\ method = "random_attack"
    /\ graph0 = Path(4)
    /\ nodes_attacked = <<1, 2>>
    /\ copied.names = <<0, 3>>
    /\ copied.edges = <<>>

\* The series s of integers never rises from one entry to the next.
NonIncreasing(s) == \A k \in 1..(Len(s) - 1) : s[k + 1] <= s[k]

\* The series s of fractions never rises from one entry to the next.
FracNonIncreasing(s) == \A k \in 1..(Len(s) - 1) : ~FracLess(s[k], s[k + 1])

\* C21: in every attack, node or edge, the largest-component series never
\* rises from one step to the next; in every edge attack run without a
\* weight selector the efficiency series never rises either.
C21_NonIncreasing ==
    InAttack =>
        /\ NonIncreasing(lcc)
        /\ (method \in EdgeMethods /\ weight = "None") => FracNonIncreasing(eff)

C21_Witness ==
    /\ pc = "done"
    /\ method = "edge_random_attack"
    /\ weight = "None"
    /\ graph0 = TestGraph
    /\ edges_attacked = <<<<0, 1>>, <<0, 2>>, <<0, 3>>>>
    /\ lcc = <<4, 4, 4, 3>>
    /\ eff = <<Frac(11, 12), Frac(5, 6), Frac(13, 18), Frac(5, 12)>>

====
